---- MODULE Spec2Model ----
(***************************************************************************)
(* The REST API of src/main.py: every request acquires a database session  *)
(* through the get_db dependency, runs one route handler that delegates to *)
(* a crud function, maps the crud result to an HTTP answer, and releases   *)
(* the session.                                                            *)
(*                                                                         *)
(* main.py imports crud, models, schemas and database, whose sources are    *)
(* not at hand.  The crud_* operators below are therefore written from the *)
(* documented behaviour of the query/mutation layer (spec.md, 3 and 4.1).  *)
(* Columns that no handler of main.py inspects and no property below reads *)
(* (title, name, birth year, duration) are left out of the rows, and so    *)
(* are the routes that only filter on them.                                *)
(***************************************************************************)
EXTENDS Integers, Sequences, FiniteSets, Bags, TLC

VARIABLES
    db,       \* the database: tables movies, stars and the join table movie_actors
    pc,       \* where the current request is: "idle", "handler", "exit", "done"
    session,  \* the handle of get_db: "none", "open", "closed"
    closes,   \* how many times db.close() ran for the current request
    misuse,   \* TRUE once a handler ran on a handle that was not open
    resp,     \* the answer of the current request (NoResponse between requests)
    pre       \* history: the database as the handler of the current request found it

vars == <<db, pc, session, closes, misuse, resp, pre>>

----------------------------------------------------------------------------
(* Bounds *)

MaxMovieId == 2
MaxStarId == 2
MaxSids == 2
\* Rows (movies plus stars) the database holds at most: creation stops there.
MaxRows == 3

Years == {2000, 2021}
MovieIdDom == 1..MaxMovieId
StarIdDom == 1..MaxStarId

\* The lists of star ids a request body may carry (repetitions included).
SidLists == UNION {[1..n -> StarIdDom] : n \in 0..MaxSids}

Range(s) == {s[i] : i \in DOMAIN s}

----------------------------------------------------------------------------
(* Values returned by crud *)

\* Python's None.
NoneR == [kind |-> "None"]
\* The integer crud.add_movie_actor returns for a star that is already an actor.
Duplicate == -1
IntR(n) == [kind |-> "Int", value |-> n]
MovieR(m) == [kind |-> "Movie", row |-> m]
StarR(s) == [kind |-> "Star", row |-> s]
ListR(l) == [kind |-> "List", items |-> l]

IsNone(r) == r.kind = "None"
\* Python's `r == -1`: an ORM object never equals an integer.
EqualsInt(r, n) == r.kind = "Int" /\ r.value = n

EmptyDb == [movies |-> {}, stars |-> {}, movie_actors |-> EmptyBag]

MovieIds(d) == {m.id : m \in d.movies}
StarIds(d) == {s.id : s \in d.stars}
\* How many join rows link movie mid to star sid.
ActorCopies(d, mid, sid) == CopiesIn(<<mid, sid>>, d.movie_actors)
\* The stars linked to movie mid.
ActorsOf(d, mid) == {p[2] : p \in {q \in BagToSet(d.movie_actors) : q[1] = mid}}
\* The row with the given id (`.filter(id == x).first()`), as a crud result.
RowsById(rows, id) == {r \in rows : r.id = id}

\* A set of integers as the ascending sequence of its elements.
RECURSIVE SortedSeq(_)
SortedSeq(S) ==
    IF S = {} THEN <<>>
    ELSE LET lo == CHOOSE x \in S : \A y \in S : x <= y
         IN <<lo>> \o SortedSeq(S \ {lo})

----------------------------------------------------------------------------
(* The query/mutation layer (crud), from its documented behaviour.  Every   *)
(* operator gives the database after the call and the value returned.       *)

Out(d, r) == [db |-> d, result |-> r]

crud_get_movie(d, movie_id) ==
    LET rows == RowsById(d.movies, movie_id)
    IN Out(d, IF rows = {} THEN NoneR ELSE MovieR(CHOOSE m \in rows : TRUE))

crud_get_star(d, star_id) ==
    LET rows == RowsById(d.stars, star_id)
    IN Out(d, IF rows = {} THEN NoneR ELSE StarR(CHOOSE s \in rows : TRUE))

\* Insert a row under the identifier the database generated (new_id).
crud_create_movie(d, movie, new_id) ==
    LET row == [id |-> new_id, year |-> movie.year, director |-> 0]
    IN Out([d EXCEPT !.movies = @ \cup {row}], MovieR(row))

crud_create_star(d, star, new_id) ==
    LET row == [id |-> new_id]
    IN Out([d EXCEPT !.stars = @ \cup {row}], StarR(row))

\* Replace the data columns of the movie whose id is movie.id.
crud_update_movie(d, movie) ==
    LET found == crud_get_movie(d, movie.id).result
    IN IF IsNone(found) THEN Out(d, NoneR)
       ELSE LET row == [found.row EXCEPT !.year = movie.year]
            IN Out([d EXCEPT !.movies = (@ \ {found.row}) \cup {row}], MovieR(row))

crud_update_star(d, star) ==
    LET found == crud_get_star(d, star.id).result
    IN IF IsNone(found) THEN Out(d, NoneR)
       ELSE LET row == [id |-> found.row.id]
            IN Out([d EXCEPT !.stars = (@ \ {found.row}) \cup {row}], StarR(row))

\* Set the director foreign key; absence when either id is unknown.
crud_update_movie_director(d, movie_id, director_id) ==
    LET movie == crud_get_movie(d, movie_id).result
        star == crud_get_star(d, director_id).result
    IN IF IsNone(movie) \/ IsNone(star) THEN Out(d, NoneR)
       ELSE LET row == [movie.row EXCEPT !.director = director_id]
            IN Out([d EXCEPT !.movies = (@ \ {movie.row}) \cup {row}], MovieR(row))

\* Append one actor; -1 when the star already is an actor of the movie.
crud_add_movie_actor(d, movie_id, star_id) ==
    LET movie == crud_get_movie(d, movie_id).result
        star == crud_get_star(d, star_id).result
    IN IF IsNone(movie) \/ IsNone(star) THEN Out(d, NoneR)
       ELSE IF ActorCopies(d, movie_id, star_id) > 0 THEN Out(d, IntR(Duplicate))
       ELSE Out([d EXCEPT !.movie_actors = @ (+) SetToBag({<<movie_id, star_id>>})],
                movie)

\* Replace the whole actor set; absence, and no change, when the movie or
\* any listed star is unknown.
crud_update_movie_actors(d, movie_id, star_ids) ==
    LET movie == crud_get_movie(d, movie_id).result
        others == [p \in {q \in BagToSet(d.movie_actors) : q[1] # movie_id}
                      |-> d.movie_actors[p]]
    IN IF IsNone(movie) \/ ~(Range(star_ids) \subseteq StarIds(d)) THEN Out(d, NoneR)
       ELSE Out([d EXCEPT !.movie_actors =
                     others (+) SetToBag({<<movie_id, s>> : s \in Range(star_ids)})],
                movie)

\* Delete the movie and, by cascade, its rows of the join table.
crud_delete_movie(d, movie_id) ==
    LET movie == crud_get_movie(d, movie_id).result
    IN IF IsNone(movie) THEN Out(d, NoneR)
       ELSE Out([d EXCEPT
                   !.movies = @ \ RowsById(@, movie_id),
                   !.movie_actors =
                       [p \in {q \in BagToSet(@) : q[1] # movie_id} |-> @[p]]],
                movie)

\* Deletion that leaves the join rows of the star behind.
crud_delete_star_keeps_actor_rows(d, star_id) ==
    LET star == crud_get_star(d, star_id).result
    IN IF IsNone(star) THEN Out(d, NoneR)
       ELSE Out([d EXCEPT
                   !.stars = @ \ RowsById(@, star_id),
                   !.movies = {IF m.director = star_id
                                 THEN [m EXCEPT !.director = 0] ELSE m : m \in @}],
                star)

\* Deletion that leaves the director references to the star behind.
crud_delete_star_keeps_director(d, star_id) ==
    LET star == crud_get_star(d, star_id).result
    IN IF IsNone(star) THEN Out(d, NoneR)
       ELSE Out([d EXCEPT
                   !.stars = @ \ RowsById(@, star_id),
                   !.movie_actors =
                       [p \in {q \in BagToSet(@) : q[2] # star_id} |-> @[p]]],
                star)

\* Delete the star and, by cascade, its associations: its rows of the join
\* table and the director reference of the movies it directs.
crud_delete_star(d, star_id) ==
    LET star == crud_get_star(d, star_id).result
    IN IF IsNone(star) THEN Out(d, NoneR)
       ELSE Out([d EXCEPT
                   !.stars = @ \ RowsById(@, star_id),
                   !.movies = {IF m.director = star_id
                                 THEN [m EXCEPT !.director = 0] ELSE m : m \in @},
                   !.movie_actors =
                       [p \in {q \in BagToSet(@) : q[2] # star_id} |-> @[p]]],
                star)

\* The director of a movie; absence when the movie is unknown and when it
\* has no director.
crud_get_star_director_movie(d, movie_id) ==
    LET movie == crud_get_movie(d, movie_id).result
    IN IF IsNone(movie) THEN Out(d, NoneR)
       ELSE IF movie.row.director = 0 THEN Out(d, NoneR)
       ELSE crud_get_star(d, movie.row.director)

crud_get_movies_by_year(d, year) ==
    Out(d, ListR([i \in 1..Cardinality({m \in d.movies : m.year = year}) |->
                    LET ids == SortedSeq({m.id : m \in {x \in d.movies : x.year = year}})
                    IN CHOOSE m \in d.movies : m.id = ids[i]]))

crud_get_movies_count(d) == Out(d, IntR(Cardinality(d.movies)))

crud_get_movies_count_year(d, year) ==
    Out(d, IntR(Cardinality({m \in d.movies : m.year = year})))

\* SELECT year, count(*) ... GROUP BY year ORDER BY year.
crud_get_movies_count_by_year(d) ==
    LET ys == SortedSeq({m.year : m \in d.movies})
    IN Out(d, ListR([i \in DOMAIN ys |->
                       <<ys[i], Cardinality({m \in d.movies : m.year = ys[i]})>>]))

crud_get_stars_count(d) == Out(d, IntR(Cardinality(d.stars)))


----------------------------------------------------------------------------
(* Answers *)

Null == [type |-> "null"]
NoResponse == [route |-> "none"]

\* raise HTTPException(status_code=..., detail=...)
HTTPException(status_code, detail) ==
    [status |-> status_code, detail |-> detail, body |-> Null]

\* schemas.Star, schemas.Movie and schemas.MovieDetail read from a row; the
\* relationships of MovieDetail are loaded from the database d.
Star(row) == [type |-> "Star", id |-> row.id]
Movie(row) == [type |-> "Movie", id |-> row.id, year |-> row.year]
MovieDetail(d, row) ==
    [type |-> "MovieDetail", id |-> row.id, year |-> row.year,
     director |-> IF row.director = 0 THEN Null ELSE [type |-> "Star", id |-> row.director],
     actors |-> {[type |-> "Star", id |-> s] : s \in ActorsOf(d, row.id)}]

\* `return r` under response_model: 200 with r serialized, or the
\* framework's 500 when r does not validate against response_model.
Return(response_model, d, r) ==
    LET ok(body) == [status |-> 200, detail |-> "", body |-> body]
    IN CASE response_model = "Movie" /\ r.kind = "Movie" -> ok(Movie(r.row))
         [] response_model = "MovieDetail" /\ r.kind = "Movie" -> ok(MovieDetail(d, r.row))
         [] response_model = "Star" /\ r.kind = "Star" -> ok(Star(r.row))
         [] response_model = "Optional[Star]" /\ r.kind = "Star" -> ok(Star(r.row))
         [] response_model = "Optional[Star]" /\ r.kind = "None" -> ok(Null)
         [] response_model = "List[Movie]" /\ r.kind = "List" ->
                ok([type |-> "list", items |-> [i \in DOMAIN r.items |-> Movie(r.items[i])]])
         [] response_model = "Any" /\ r.kind = "List" ->
                ok([type |-> "list", items |-> r.items])
         [] response_model = "Any" /\ r.kind = "Int" ->
                ok([type |-> "int", value |-> r.value])
         [] response_model = "Any" /\ r.kind = "None" -> ok(Null)
         [] OTHER -> [status |-> 500, detail |-> "Internal Server Error", body |-> Null]

----------------------------------------------------------------------------
(* The request scope: Depends(get_db) around one route handler *)

\* db = SessionLocal(); yield db
get_db_enter ==
    /\ pc = "idle"
    /\ session' = "open"
    /\ closes' = 0
    /\ pc' = "handler"
    /\ UNCHANGED <<db, misuse, resp, pre>>

\* The generator resumed without try/finally: an exception thrown in at the
\* yield leaves it before db.close().
get_db_exit_no_finally ==
    /\ pc = "exit"
    /\ session' = IF resp.status = 200 THEN "closed" ELSE session
    /\ closes' = IF resp.status = 200 THEN closes + 1 ELSE closes
    /\ pc' = "done"
    /\ UNCHANGED <<db, misuse, resp, pre>>

\* finally: db.close() -- reached when the handler returned and when it raised.
get_db_exit ==
    /\ pc = "exit"
    /\ session' = "closed"
    /\ closes' = closes + 1
    /\ pc' = "done"
    /\ UNCHANGED <<db, misuse, resp, pre>>

\* The request is over: its answer has left.
request_end ==
    /\ pc = "done"
    /\ pc' = "idle"
    /\ resp' = NoResponse
    /\ pre' = db
    /\ UNCHANGED <<db, session, closes, misuse>>

\* One handler run on the injected session: out is what its crud call gave,
\* answer what the handler returned or raised.
Handler(route, args, out, answer) ==
    /\ pc = "handler"
    /\ misuse' = (misuse \/ session # "open")
    /\ pre' = db
    /\ db' = out.db
    /\ resp' = [route |-> route, args |-> args, result |-> out.result,
                status |-> answer.status, detail |-> answer.detail,
                body |-> answer.body]
    /\ pc' = "exit"
    /\ UNCHANGED <<session, closes>>

----------------------------------------------------------------------------
(* Routes: movies *)

\* The identifiers the database may generate for a new row: any unused one,
\* while the database has room.
HasRoom == Cardinality(db.movies) + Cardinality(db.stars) < MaxRows
FreshMovieIds == IF HasRoom THEN MovieIdDom \ MovieIds(db) ELSE {}
FreshStarIds == IF HasRoom THEN StarIdDom \ StarIds(db) ELSE {}

create_user(movie) ==
    \E new_id \in FreshMovieIds :
        LET out == crud_create_movie(db, movie, new_id)
        IN Handler("create_user", [movie |-> movie], out,
                   Return("Movie", out.db, out.result))

\* The handler with the two ids passed to crud in each other's place.
update_movie_director_swapped(mid, sid) ==
    LET out == crud_update_movie_director(db, sid, mid)
    IN Handler("update_movie_director", [mid |-> mid, sid |-> sid], out,
               IF IsNone(out.result)
               THEN HTTPException(404, "Movie or Star not found")
               ELSE Return("MovieDetail", out.db, out.result))

update_movie_director(mid, sid) ==
    LET out == crud_update_movie_director(db, mid, sid)
    IN Handler("update_movie_director", [mid |-> mid, sid |-> sid], out,
               IF IsNone(out.result)
               THEN HTTPException(404, "Movie or Star not found")
               ELSE Return("MovieDetail", out.db, out.result))

\* The handler without its test for -1.
add_movie_actor_no_duplicate_test(mid, sid) ==
    LET out == crud_add_movie_actor(db, mid, sid)
    IN Handler("add_movie_actor", [mid |-> mid, sid |-> sid], out,
               IF IsNone(out.result)
               THEN HTTPException(404, "Movie or Star not found")
               ELSE Return("MovieDetail", out.db, out.result))

add_movie_actor(mid, sid) ==
    LET out == crud_add_movie_actor(db, mid, sid)
    IN Handler("add_movie_actor", [mid |-> mid, sid |-> sid], out,
               IF IsNone(out.result)
               THEN HTTPException(404, "Movie or Star not found")
               ELSE IF EqualsInt(out.result, -1)
               THEN HTTPException(404, "Star already in actors")
               ELSE Return("MovieDetail", out.db, out.result))

\* The handler without its test for None.
update_movie_actors_unchecked(mid, sids) ==
    LET out == crud_update_movie_actors(db, mid, sids)
    IN Handler("update_movie_actors", [mid |-> mid, sids |-> sids], out,
               Return("MovieDetail", out.db, out.result))

update_movie_actors(mid, sids) ==
    LET out == crud_update_movie_actors(db, mid, sids)
    IN Handler("update_movie_actors", [mid |-> mid, sids |-> sids], out,
               IF IsNone(out.result)
               THEN HTTPException(404, "Movie or Star not found")
               ELSE Return("MovieDetail", out.db, out.result))

read_movie(movie_id) ==
    LET out == crud_get_movie(db, movie_id)
    IN Handler("read_movie", [movie_id |-> movie_id], out,
               IF IsNone(out.result)
               THEN HTTPException(404, "Movie to read not found")
               ELSE Return("MovieDetail", out.db, out.result))

read_movies_by_year(year) ==
    LET out == crud_get_movies_by_year(db, year)
    IN Handler("read_movies_by_year", [year |-> year], out,
               Return("List[Movie]", out.db, out.result))

\* The handler calling the count of the other table.
read_movies_count_of_stars ==
    LET out == crud_get_stars_count(db)
    IN Handler("read_movies_count", <<>>, out, Return("Any", out.db, out.result))

read_movies_count ==
    LET out == crud_get_movies_count(db)
    IN Handler("read_movies_count", <<>>, out, Return("Any", out.db, out.result))

read_movies_count_year(year) ==
    LET out == crud_get_movies_count_year(db, year)
    IN Handler("read_movies_count_year", [year |-> year], out,
               Return("Any", out.db, out.result))

read_count_movies_by_year ==
    LET out == crud_get_movies_count_by_year(db)
    IN Handler("read_count_movies_by_year", <<>>, out,
               Return("Any", out.db, out.result))

\* The handler calling crud.create_movie, as create_user does.
update_movie_creates(movie) ==
    \E new_id \in FreshMovieIds :
        LET out == crud_create_movie(db, [year |-> movie.year], new_id)
        IN Handler("update_movie", [movie |-> movie], out,
                   IF IsNone(out.result)
                   THEN HTTPException(404, "Movie to update not found")
                   ELSE Return("Movie", out.db, out.result))

update_movie(movie) ==
    LET out == crud_update_movie(db, movie)
    IN Handler("update_movie", [movie |-> movie], out,
               IF IsNone(out.result)
               THEN HTTPException(404, "Movie to update not found")
               ELSE Return("Movie", out.db, out.result))

\* The handler calling crud.get_movie, as read_movie does.
delete_movie_only_reads(movie_id) ==
    LET out == crud_get_movie(db, movie_id)
    IN Handler("delete_movie", [movie_id |-> movie_id], out,
               IF IsNone(out.result)
               THEN HTTPException(404, "Movie to delete not found")
               ELSE Return("Movie", out.db, out.result))

delete_movie(movie_id) ==
    LET out == crud_delete_movie(db, movie_id)
    IN Handler("delete_movie", [movie_id |-> movie_id], out,
               IF IsNone(out.result)
               THEN HTTPException(404, "Movie to delete not found")
               ELSE Return("Movie", out.db, out.result))

----------------------------------------------------------------------------
(* Routes: stars *)

read_star(star_id) ==
    LET out == crud_get_star(db, star_id)
    IN Handler("read_star", [star_id |-> star_id], out,
               IF IsNone(out.result)
               THEN HTTPException(404, "Star to read not found")
               ELSE Return("Star", out.db, out.result))

read_stars_count ==
    LET out == crud_get_stars_count(db)
    IN Handler("read_stars_count", <<>>, out, Return("Any", out.db, out.result))

read_stars_by_movie_directed_id(movie_id) ==
    LET out == crud_get_star_director_movie(db, movie_id)
    IN Handler("read_stars_by_movie_directed_id", [movie_id |-> movie_id], out,
               Return("Optional[Star]", out.db, out.result))

create_star(star) ==
    \E new_id \in FreshStarIds :
        LET out == crud_create_star(db, star, new_id)
        IN Handler("create_star", [star |-> star], out,
                   Return("Star", out.db, out.result))

\* The handler without its test for None.
update_star_unchecked(star) ==
    LET out == crud_update_star(db, star)
    IN Handler("update_star", [star |-> star], out,
               Return("Star", out.db, out.result))

update_star(star) ==
    LET out == crud_update_star(db, star)
    IN Handler("update_star", [star |-> star], out,
               IF IsNone(out.result)
               THEN HTTPException(404, "Star to update not found")
               ELSE Return("Star", out.db, out.result))

delete_star(star_id) ==
    LET out == crud_delete_star(db, star_id)
    IN Handler("delete_star", [star_id |-> star_id], out,
               IF IsNone(out.result)
               THEN HTTPException(404, "Star to delete not found")
               ELSE Return("Star", out.db, out.result))

----------------------------------------------------------------------------
(* Request bodies *)

\* schemas.MovieCreate and schemas.StarCreate: a record without its id.
MovieCreates == [year : Years]
StarCreates == {<<>>}
\* schemas.Movie and schemas.Star: a full record, id included.
Movies == [id : MovieIdDom, year : Years]
Stars == [id : StarIdDom]

----------------------------------------------------------------------------
(* Specifications *)

Init ==
    /\ db = EmptyDb
    /\ pc = "idle"
    /\ session = "none"
    /\ closes = 0
    /\ misuse = FALSE
    /\ resp = NoResponse
    /\ pre = EmptyDb

\* Every modelled route.
Next ==
    \/ get_db_enter
    \/ get_db_exit
    \/ request_end
    \/ \E movie \in MovieCreates : create_user(movie)
    \/ \E mid \in MovieIdDom, sid \in StarIdDom : update_movie_director(mid, sid)
    \/ \E mid \in MovieIdDom, sid \in StarIdDom : add_movie_actor(mid, sid)
    \/ \E mid \in MovieIdDom, sids \in SidLists : update_movie_actors(mid, sids)
    \/ \E movie_id \in MovieIdDom : read_movie(movie_id)
    \/ \E year \in Years : read_movies_by_year(year)
    \/ read_movies_count
    \/ \E year \in Years : read_movies_count_year(year)
    \/ read_count_movies_by_year
    \/ \E movie \in Movies : update_movie(movie)
    \/ \E movie_id \in MovieIdDom : delete_movie(movie_id)
    \/ \E star_id \in StarIdDom : read_star(star_id)
    \/ read_stars_count
    \/ \E movie_id \in MovieIdDom : read_stars_by_movie_directed_id(movie_id)
    \/ \E star \in StarCreates : create_star(star)
    \/ \E star \in Stars : update_star(star)
    \/ \E star_id \in StarIdDom : delete_star(star_id)

Spec == Init /\ [][Next]_vars

----------------------------------------------------------------------------
(* Properties *)

\* The handler of the named route has answered the current request.
Answered(route) == pc \in {"exit", "done"} /\ resp.route = route

\* The number of join rows of movie mid.
ActorCount(d, mid) ==
    BagCardinality([p \in {q \in BagToSet(d.movie_actors) : q[1] = mid}
                       |-> d.movie_actors[p]])

\* The join rows of the movies other than mid.
OtherActorRows(d, mid) ==
    [p \in {q \in BagToSet(d.movie_actors) : q[1] # mid} |-> d.movie_actors[p]]

\* C1: add_movie_actor(m, s) for an existing movie m and an existing star s
\* links s to m and answers 200 when s is not yet an actor of m; when s
\* already is one (a second add), it yields the duplicate signal -1, answered
\* 404 "Star already in actors" and not the not-found message, and m has as
\* many actors as before.
C1_DuplicateAddRejected ==
    Answered("add_movie_actor") =>
        LET mid == resp.args.mid
            sid == resp.args.sid
        IN (mid \in MovieIds(pre) /\ sid \in StarIds(pre)) =>
               IF ActorCopies(pre, mid, sid) = 0
               THEN /\ resp.status = 200
                    /\ ActorCopies(db, mid, sid) = 1
               ELSE /\ EqualsInt(resp.result, Duplicate)
                    /\ ~IsNone(resp.result)
                    /\ resp.status = 404
                    /\ resp.detail = "Star already in actors"
                    /\ resp.detail # "Movie or Star not found"
                    /\ ActorCount(db, mid) = ActorCount(pre, mid)

\* A second add of a pair that is already linked has been answered.
C1_Witness ==
    /\ Answered("add_movie_actor")
    /\ resp.args.mid \in MovieIds(pre)
    /\ resp.args.sid \in StarIds(pre)
    /\ ActorCopies(pre, resp.args.mid, resp.args.sid) = 1
    /\ resp.detail = "Star already in actors"

\* C2: in every reachable state each movie's actors are existing stars, each
\* linked to the movie by exactly one join row.
C2_ActorsExistOnce ==
    \A m \in db.movies :
        /\ ActorsOf(db, m.id) \subseteq StarIds(db)
        /\ \A s \in ActorsOf(db, m.id) : ActorCopies(db, m.id, s) = 1
        /\ ActorCount(db, m.id) = Cardinality(ActorsOf(db, m.id))

\* A star that was an actor of a movie has been deleted, the movie remains.
C2_Witness ==
    /\ Answered("delete_star")
    /\ resp.status = 200
    /\ \E m \in db.movies : ActorCopies(pre, m.id, resp.args.star_id) > 0

\* C3: in every reachable state the director of a movie, if present, is an
\* existing star.
C3_DirectorExists ==
    \A m \in db.movies : m.director = 0 \/ m.director \in StarIds(db)

\* A star that directed a movie has been deleted, the movie remains.
C3_Witness ==
    /\ Answered("delete_star")
    /\ resp.status = 200
    /\ \E m \in pre.movies :
           /\ m.director = resp.args.star_id
           /\ m.id \in MovieIds(db)

\* C4: a successful delete_movie(id) (delete_star(id)) leaves no row with
\* that id, so that get_movie(id) (get_star(id)) gives absence; while no row
\* has the id, the by_id route and the delete route answer 404; and only a
\* create brings an id back.
C4_DeletedIsAbsent ==
    pc \in {"exit", "done"} =>
        /\ (resp.route = "delete_movie" /\ resp.status = 200) =>
               /\ resp.args.movie_id \in MovieIds(pre)
               /\ resp.args.movie_id \notin MovieIds(db)
               /\ IsNone(crud_get_movie(db, resp.args.movie_id).result)
        /\ (resp.route = "delete_star" /\ resp.status = 200) =>
               /\ resp.args.star_id \in StarIds(pre)
               /\ resp.args.star_id \notin StarIds(db)
               /\ IsNone(crud_get_star(db, resp.args.star_id).result)
        /\ (resp.route \in {"read_movie", "delete_movie"}
              /\ resp.args.movie_id \notin MovieIds(pre)) => resp.status = 404
        /\ (resp.route \in {"read_star", "delete_star"}
              /\ resp.args.star_id \notin StarIds(pre)) => resp.status = 404
        /\ (MovieIds(db) \ MovieIds(pre) # {}) => resp.route = "create_user"
        /\ (StarIds(db) \ StarIds(pre) # {}) => resp.route = "create_star"

\* A movie has been deleted while other rows remain.
C4_Witness ==
    /\ Answered("delete_movie")
    /\ resp.status = 200
    /\ resp.args.movie_id \in MovieIds(pre)
    /\ resp.args.movie_id \notin MovieIds(db)
    /\ db.movies # {}
    /\ db.stars # {}

\* C5: no two rows of a table share an id; create answers with an id that no
\* row had and that the new row has; a lookup by id answers with the row of
\* that id; every id present before a request is present after it unless
\* the request deleted it, and the update operations leave the ids of both
\* tables as they were.
C5_IdsUniqueStable ==
    /\ \A m1, m2 \in db.movies : m1.id = m2.id => m1 = m2
    /\ \A s1, s2 \in db.stars : s1.id = s2.id => s1 = s2
    /\ pc \in {"exit", "done"} =>
        /\ (resp.route = "create_user" /\ resp.status = 200) =>
               /\ resp.body.id \notin MovieIds(pre)
               /\ MovieIds(db) = MovieIds(pre) \cup {resp.body.id}
        /\ (resp.route = "create_star" /\ resp.status = 200) =>
               /\ resp.body.id \notin StarIds(pre)
               /\ StarIds(db) = StarIds(pre) \cup {resp.body.id}
        /\ (resp.route = "read_movie" /\ resp.args.movie_id \in MovieIds(pre)) =>
               /\ resp.status = 200
               /\ resp.body.id = resp.args.movie_id
        /\ (resp.route = "read_star" /\ resp.args.star_id \in StarIds(pre)) =>
               /\ resp.status = 200
               /\ resp.body.id = resp.args.star_id
        /\ resp.route # "delete_movie" => MovieIds(pre) \subseteq MovieIds(db)
        /\ resp.route # "delete_star" => StarIds(pre) \subseteq StarIds(db)
        /\ resp.route \in {"update_movie", "update_star", "update_movie_director",
                           "add_movie_actor", "update_movie_actors"} =>
               /\ MovieIds(db) = MovieIds(pre)
               /\ StarIds(db) = StarIds(pre)
               /\ resp.status = 200 /\ resp.route # "update_star" =>
                      resp.body.id = IF resp.route = "update_movie"
                                     THEN resp.args.movie.id ELSE resp.args.mid

\* A second movie has been created beside an existing one.
C5_Witness ==
    /\ Answered("create_user")
    /\ resp.status = 200
    /\ pre.movies # {}
    /\ Cardinality(MovieIds(db)) = Cardinality(db.movies)
    /\ Cardinality(db.movies) = Cardinality(pre.movies) + 1

\* C6: update_movie_actors(movie_id, star_ids), when the movie and every
\* listed star exist, answers 200 and leaves the movie with exactly the
\* listed stars as actors (none for the empty list); otherwise it answers
\* 404 and the join table is as it was.  The actors of the other movies are
\* never touched.
C6_ActorsReplacedAtomically ==
    Answered("update_movie_actors") =>
        LET mid == resp.args.mid
            sids == resp.args.sids
        IN /\ OtherActorRows(db, mid) = OtherActorRows(pre, mid)
           /\ IF mid \in MovieIds(pre) /\ Range(sids) \subseteq StarIds(pre)
              THEN /\ resp.status = 200
                   /\ ActorsOf(db, mid) = Range(sids)
                   /\ ActorCount(db, mid) = Cardinality(Range(sids))
                   /\ {a.id : a \in resp.body.actors} = Range(sids)
              ELSE /\ IsNone(resp.result)
                   /\ resp.status = 404
                   /\ db = pre

\* A list naming a known and an unknown star was refused for a movie that
\* has actors.
C6_Witness ==
    /\ Answered("update_movie_actors")
    /\ resp.status = 404
    /\ resp.args.mid \in MovieIds(pre)
    /\ ActorsOf(pre, resp.args.mid) # {}
    /\ Range(resp.args.sids) \cap StarIds(pre) # {}
    /\ Range(resp.args.sids) \ StarIds(pre) # {}

\* The routes that test the value crud returned before they answer.
CheckedRoutes ==
    {"update_movie_director", "add_movie_actor", "update_movie_actors",
     "read_movie", "update_movie", "delete_movie",
     "read_star", "update_star", "delete_star"}

\* The answer a route owes to the value crud returned.
MapsOutcome ==
    LET absent == IsNone(resp.result)
        duplicate == EqualsInt(resp.result, Duplicate)
    IN /\ absent => resp.status = 404 /\ resp.detail # ""
       /\ duplicate => resp.status = 404 /\ resp.detail = "Star already in actors"
       /\ (~absent /\ ~duplicate) => resp.status = 200 /\ resp.body # Null
       /\ resp.status = 200 => ~absent

\* C7 as stated: every route answers 200 with a body for a populated
\* result, 404 with a message for the absence signal, 404 "Star already in
\* actors" for the duplicate signal, and never 200 for the absence signal.
C7_EveryRouteMapsOutcome ==
    pc \in {"exit", "done"} => MapsOutcome

\* C7 as amended: the routes that test the value crud returned map it that
\* way; read_stars_by_movie_directed_id returns it untested, so it answers
\* 200 with a null body for the absence signal; the remaining routes never
\* receive an absence signal and answer 200.
C7_CheckedRoutesMapOutcome ==
    pc \in {"exit", "done"} =>
        /\ resp.route \in CheckedRoutes => MapsOutcome
        /\ resp.route = "read_stars_by_movie_directed_id" =>
               /\ resp.status = 200
               /\ IsNone(resp.result) <=> resp.body = Null
               /\ IsNone(resp.result) <=>
                      \/ resp.args.movie_id \notin MovieIds(pre)
                      \/ \E m \in pre.movies :
                             m.id = resp.args.movie_id /\ m.director = 0
        /\ (resp.route \notin CheckedRoutes
              /\ resp.route # "read_stars_by_movie_directed_id") =>
               ~IsNone(resp.result) /\ resp.status = 200

\* An update of an unknown star has been answered 404.
C7_Witness ==
    /\ Answered("update_star")
    /\ IsNone(resp.result)
    /\ resp.status = 404
    /\ resp.detail = "Star to update not found"

\* C8: a request holds exactly one session, open from get_db's yield until
\* the handler has answered; whatever the handler did (return or raise
\* HTTPException), get_db can then resume and close it; once closed it has
\* been closed exactly once, no handler ran on a session that was not open,
\* and no request ends with its session open.
C8_SessionScoped ==
    /\ pc \in {"handler", "exit"} => session = "open" /\ closes = 0
    /\ pc = "exit" => ENABLED get_db_exit
    /\ pc = "done" => session = "closed" /\ closes = 1
    /\ pc = "idle" => session \in {"none", "closed"}
    /\ session = "closed" => closes = 1
    /\ closes <= 1
    /\ ~misuse

\* The session of a request whose handler raised the 404 has been closed.
C8_Witness ==
    /\ pc = "done"
    /\ resp.status = 404
    /\ session = "closed"
    /\ closes = 1

\* The sum of the counts of a sequence of (year, count) pairs.
RECURSIVE SumCounts(_)
SumCounts(pairs) ==
    IF pairs = <<>> THEN 0 ELSE Head(pairs)[2] + SumCounts(Tail(pairs))

\* C9: /movies/count_by_year answers one (year, count) pair per distinct
\* year present among the movies, in ascending order of year, each count
\* positive, and the counts sum to what /movies/count answers on the same
\* database, the number of movies.
C9_CountsByYearSumToCount ==
    /\ Answered("read_count_movies_by_year") =>
           LET pairs == resp.body.items
           IN /\ resp.status = 200
              /\ {pairs[i][1] : i \in DOMAIN pairs} = {m.year : m \in db.movies}
              /\ \A i, j \in DOMAIN pairs : i < j => pairs[i][1] < pairs[j][1]
              /\ \A i \in DOMAIN pairs : pairs[i][2] > 0
              /\ SumCounts(pairs) = crud_get_movies_count(db).result.value
              /\ SumCounts(pairs) = Cardinality(MovieIds(db))
    /\ Answered("read_movies_count") =>
           /\ resp.status = 200
           /\ resp.body.value = SumCounts(crud_get_movies_count_by_year(db).result.items)

\* Counts by year were answered with one year holding at least two movies.
C9_Witness ==
    /\ Answered("read_count_movies_by_year")
    /\ Len(resp.body.items) >= 1
    /\ \E i \in DOMAIN resp.body.items : resp.body.items[i][2] >= 2

\* C10: update_movie_director(movie_id, star_id), when both ids exist,
\* answers 200 and leaves the movie with the given star as director,
\* whatever its director was; otherwise it answers 404 "Movie or Star not
\* found" and the database is as it was.  The other movies keep their rows,
\* and a movie never has two rows, hence never two directors.
C10_DirectorSetOrRefused ==
    /\ \A id \in MovieIds(db) : Cardinality(RowsById(db.movies, id)) = 1
    /\ Answered("update_movie_director") =>
           LET mid == resp.args.mid
               sid == resp.args.sid
           IN /\ {m \in db.movies : m.id # mid} = {m \in pre.movies : m.id # mid}
              /\ IF mid \in MovieIds(pre) /\ sid \in StarIds(pre)
                 THEN /\ resp.status = 200
                      /\ \A m \in RowsById(db.movies, mid) : m.director = sid
                      /\ resp.body.id = mid
                      /\ resp.body.director = [type |-> "Star", id |-> sid]
                 ELSE /\ IsNone(resp.result)
                      /\ resp.status = 404
                      /\ resp.detail = "Movie or Star not found"
                      /\ db = pre

\* A movie directed by one star has been given another star as director.
C10_Witness ==
    /\ Answered("update_movie_director")
    /\ resp.status = 200
    /\ \E m \in pre.movies :
           /\ m.id = resp.args.mid
           /\ m.director # 0
           /\ m.director # resp.args.sid

====
